---- MODULE Spec2Model ----
(***************************************************************************)
(* Model of shortcuts/date.py: the Config class, the time resolver         *)
(* (_time_value, time_now, time_in, time_ago, timestamp) and the Duration  *)
(* class with difference().                                                *)
(*                                                                         *)
(* Time spans are kept the way datetime.timedelta keeps them: a signed     *)
(* whole part and a microsecond part in 0..999999.  Duration works on      *)
(* timedelta.total_seconds(), a binary64 float, so the float arithmetic    *)
(* (correctly rounded division and multiplication, 53 bit significand,     *)
(* round half to even) is modelled on bit sequences.                       *)
(***************************************************************************)
EXTENDS Integers, Sequences, FiniteSets, TLC

VARIABLES
    environ,    \* the process environment: variable name -> value or Unset
    Config,     \* the attributes of class Config
    assigned,   \* history: the last value the caller assigned to each
                \* Config attribute, NotAssigned if it never did
    clock,      \* the process clock, in ticks
    tzoffset,   \* the UTC offset of the local zone, in seconds
    last,       \* the last call made and what it returned
    dur,        \* the Duration instance the caller holds
    firstRead   \* history of dur: how it was made, and what each unit
                \* returned when it was first read

vars == <<environ, Config, assigned, clock, tzoffset, last, dur, firstRead>>

(***************************************************************************)
(* Natural numbers as big-endian bit sequences without leading zeros       *)
(* (zero is the empty sequence).  Carries and remainders are propagated    *)
(* over limbs of 8 bits, so that every intermediate value stays a   *)
(* small integer.                                                          *)
(***************************************************************************)
LimbBase == 2 ^ 8

AllZero(b) == \A i \in 1..Len(b) : b[i] = 0

Zeros(n) == [i \in 1..n |-> 0]

Strip(b) ==
    IF AllZero(b) THEN <<>>
    ELSE LET p == CHOOSE i \in 1..Len(b) :
                      b[i] = 1 /\ \A j \in 1..(i - 1) : b[j] = 0
         IN  SubSeq(b, p, Len(b))

\* the limbs of a bit sequence (padded on the left to whole limbs)
Limbs(b) ==
    LET n == (Len(b) + 7) \div 8
        p == Zeros(n * 8 - Len(b)) \o b
    IN  [j \in 1..n |->
            p[8*j - 7] * 128 + p[8*j - 6] * 64 + p[8*j - 5] * 32 + p[8*j - 4] * 16
            + p[8*j - 3] * 8 + p[8*j - 2] * 4 + p[8*j - 1] * 2 + p[8*j]]

BitsOfLimbs(l) ==
    Strip([i \in 1..(8 * Len(l)) |->
              (l[((i - 1) \div 8) + 1] \div (2 ^ (7 - ((i - 1) % 8)))) % 2])

\* the bits of a small natural number (below 2^31)
NatBits(n) == Strip([i \in 1..31 |-> (n \div (2 ^ (31 - i))) % 2])

\* limbs * c + carry, for small c and carry
RECURSIVE MulLimbs(_, _, _)
MulLimbs(l, c, carry) ==
    IF l = <<>> THEN Limbs(NatBits(carry))
    ELSE LET t == l[Len(l)] * c + carry
         IN  Append(MulLimbs(SubSeq(l, 1, Len(l) - 1), c, t \div LimbBase),
                    t % LimbBase)

MulAdd(b, c, carry) == BitsOfLimbs(MulLimbs(Limbs(b), c, carry))

\* schoolbook long division of limbs by a small d: i is the next limb, r the
\* running remainder, q the quotient so far
RECURSIVE DivLoop(_, _, _, _, _)
DivLoop(l, d, i, r, q) ==
    IF i > Len(l) THEN [q |-> q, r |-> r]
    ELSE LET t == LimbBase * r + l[i]
         IN  DivLoop(l, d, i + 1, t % d, Append(q, t \div d))

DivMod(b, d) ==
    LET x == DivLoop(Limbs(b), d, 1, 0, <<>>)
    IN  [q |-> BitsOfLimbs(x.q), r |-> x.r]

DivFloor(b, d) == DivMod(b, d).q

\* bits + 1
Inc(b) ==
    IF \A i \in 1..Len(b) : b[i] = 1 THEN <<1>> \o Zeros(Len(b))
    ELSE LET p == CHOOSE i \in 1..Len(b) :
                      b[i] = 0 /\ \A j \in (i + 1)..Len(b) : b[j] = 1
         IN  [i \in 1..Len(b) |-> IF i < p THEN b[i] ELSE IF i = p THEN 1 ELSE 0]

(***************************************************************************)
(* binary64 floats: [neg, m, e] stands for (-1)^neg * m * 2^e, where m is  *)
(* a significand of exactly MantBits bits (leading bit 1), or <<>> for 0.  *)
(***************************************************************************)
MantBits == 53

FZero == [neg |-> FALSE, m |-> <<>>, e |-> 0]

\* round an exact value b * 2^e (sticky: a nonzero part below b was dropped)
\* to the nearest float, ties to even
RoundNearestEven(neg, b0, e0, sticky0) ==
    LET b == Strip(b0)
        e == e0
    IN  IF b = <<>> THEN FZero
        ELSE IF Len(b) <= MantBits
        THEN [neg |-> neg, m |-> b \o Zeros(MantBits - Len(b)),
              e |-> e - (MantBits - Len(b))]
        ELSE LET k      == Len(b) - MantBits
                 m      == SubSeq(b, 1, MantBits)
                 rnd    == b[MantBits + 1]
                 sticky == sticky0 \/ ~AllZero(SubSeq(b, MantBits + 2, Len(b)))
                 up     == rnd = 1 /\ (sticky \/ m[MantBits] = 1)
                 m1     == IF up THEN Inc(m) ELSE m
             IN  IF Len(m1) > MantBits
                 THEN [neg |-> neg, m |-> SubSeq(m1, 1, MantBits), e |-> e + k + 1]
                 ELSE [neg |-> neg, m |-> m1, e |-> e + k]

\* correctly rounded (b * 2^e) / d for a small d: the numerator is extended
\* by GuardBits zero bits so that the integer quotient has more than
\* MantBits + 1 significant bits, the remainder gives the sticky bit
GuardBits == MantBits + 27

FDivBits(neg, b, e, d) ==
    IF Strip(b) = <<>> THEN FZero
    ELSE LET x == DivMod(Strip(b) \o Zeros(GuardBits), d)
         IN  RoundNearestEven(neg, x.q, e - GuardBits, x.r # 0)

FloatDiv(f, d) == FDivBits(f.neg, f.m, f.e, d)

FloatMul(f, c) == RoundNearestEven(f.neg, MulAdd(f.m, c, 0), f.e, FALSE)

\* int(float): truncation toward zero, as a signed big integer
BigZero == [neg |-> FALSE, bits |-> <<>>]

MkBig(neg, bits) ==
    IF Strip(bits) = <<>> THEN BigZero ELSE [neg |-> neg, bits |-> Strip(bits)]

FloatToInt(f) ==
    IF f.m = <<>> THEN BigZero
    ELSE IF f.e >= 0 THEN MkBig(f.neg, f.m \o Zeros(f.e))
    ELSE IF -f.e >= Len(f.m) THEN BigZero
    ELSE MkBig(f.neg, SubSeq(f.m, 1, Len(f.m) + f.e))

(***************************************************************************)
(* datetime.timedelta: a span [s, us] of s whole seconds plus us           *)
(* microseconds, normalised so that 0 <= us < 1000000 (the sign is in s).  *)
(***************************************************************************)
TdNorm(s, us) == [s |-> s + (us \div 1000000), us |-> us % 1000000]

TdAdd(a, b) == TdNorm(a.s + b.s, a.us + b.us)

TdSub(a, b) == TdNorm(a.s - b.s, a.us - b.us)

TdNeg(a) == TdNorm(-a.s, -a.us)

\* timedelta.__abs__
TdAbs(a) == IF a.s < 0 THEN TdNeg(a) ELSE a

\* timedelta(**intervals): every field is converted and summed into one span
timedelta(f) ==
    TdNorm(f.seconds + 60 * f.minutes + 3600 * f.hours + 86400 * f.days
               + 604800 * f.weeks,
           f.microseconds + 1000 * f.milliseconds)

\* the total number of microseconds of a span, as a signed big integer
TotalMicro(a) ==
    LET p == TdAbs(a)
    IN  MkBig(a.s < 0, MulAdd(NatBits(p.s), 1000000, p.us))

\* timedelta.total_seconds(): the microseconds true-divided by 10**6
total_seconds(a) ==
    LET t == TotalMicro(a) IN FDivBits(t.neg, t.bits, 0, 1000000)

(***************************************************************************)
(* datetime: the wall clock reading as a span since the epoch, and the     *)
(* attached UTC offset (aware) or none (naive; off is then 0).             *)
(***************************************************************************)
Instant(n) == TdNorm(86400, 999500 + 300 * n)

\* datetime.now(UTC)
NowUtc == [wall |-> Instant(clock), aware |-> TRUE, off |-> 0]

\* datetime.now(): the local wall clock, naive
NowLocal ==
    [wall |-> TdAdd(Instant(clock), TdNorm(tzoffset, 0)), aware |-> FALSE, off |-> 0]

\* value.replace(tzinfo=None)
StripTz(v) == [v EXCEPT !.aware = FALSE, !.off = 0]

\* value.astimezone() of a naive value: it is taken as local time
AsTimezone(v) == [v EXCEPT !.aware = TRUE, !.off = tzoffset]

DtAdd(v, td) == [v EXCEPT !.wall = TdAdd(v.wall, td)]

DtSubTd(v, td) == [v EXCEPT !.wall = TdSub(v.wall, td)]

\* datetime - datetime: aware values are compared as instants, naive values
\* as wall clock readings, a mix raises TypeError
TypeError == [raised |-> "TypeError"]

DtSub(a, b) ==
    IF a.aware # b.aware THEN TypeError
    ELSE IF a.aware
    THEN TdSub(TdSub(a.wall, TdNorm(a.off, 0)), TdSub(b.wall, TdNorm(b.off, 0)))
    ELSE TdSub(a.wall, b.wall)

(***************************************************************************)
(* Strings of the environment are sequences of characters.                 *)
(***************************************************************************)
UpperChars ==
    <<"A", "B", "C", "D", "E", "F", "G", "H", "I", "J", "K", "L", "M",
      "N", "O", "P", "Q", "R", "S", "T", "U", "V", "W", "X", "Y", "Z">>

LowerChars ==
    <<"a", "b", "c", "d", "e", "f", "g", "h", "i", "j", "k", "l", "m",
      "n", "o", "p", "q", "r", "s", "t", "u", "v", "w", "x", "y", "z">>

\* str.lower()
lower(s) ==
    [i \in 1..Len(s) |->
        IF \E k \in 1..Len(UpperChars) : UpperChars[k] = s[i]
        THEN LowerChars[CHOOSE k \in 1..Len(UpperChars) : UpperChars[k] = s[i]]
        ELSE s[i]]

\* os.getenv(name, default): environ maps the names that are set
getenv(name, default) ==
    IF name \in DOMAIN environ THEN environ[name] ELSE default

(***************************************************************************)
(* Optional values: <<>> is "no value" (None, or the DEFAULT sentinel of   *)
(* the per-call arguments), <<v>> is the value v.                          *)
(***************************************************************************)
None == <<>>

DEFAULT == <<>>

Some(v) == <<v>>

\* the flag a call works with: its argument if given, else the Config value
Effective(arg, configured) == IF arg = DEFAULT THEN configured ELSE arg[1]

(***************************************************************************)
(* class Config, as evaluated when the module is imported                  *)
(***************************************************************************)
\* ConfigClass comparing the variables without lower()
ConfigClass_case_sensitive ==
    [naive  |-> getenv("SHORTCUTS_DATE_NAIVE", <<"t", "r", "u", "e">>)
                    = <<"t", "r", "u", "e">>,
     utc    |-> getenv("SHORTCUTS_DATE_UTC", <<"f", "a", "l", "s", "e">>)
                    = <<"t", "r", "u", "e">>,
     format |-> None]

ConfigClass ==
    [naive  |-> lower(getenv("SHORTCUTS_DATE_NAIVE", <<"t", "r", "u", "e">>))
                    = <<"t", "r", "u", "e">>,
     utc    |-> lower(getenv("SHORTCUTS_DATE_UTC", <<"f", "a", "l", "s", "e">>))
                    = <<"t", "r", "u", "e">>,
     format |-> None]

(***************************************************************************)
(* _time_value(naive, utc, add, subtract, **intervals); naive and utc are  *)
(* DEFAULT or Some(boolean)                                                *)
(***************************************************************************)
\* _time_value taking naive from Config even when the argument is given
_time_value_config_naive(naive0, utc0, add, subtract, intervals) ==
    LET naive == Config.naive
        utc   == IF utc0 = DEFAULT THEN Config.utc ELSE utc0[1]
        value == IF utc
                 THEN (IF naive THEN StripTz(NowUtc) ELSE NowUtc)
                 ELSE (IF ~naive THEN AsTimezone(NowLocal) ELSE NowLocal)
    IN  IF add THEN DtAdd(value, timedelta(intervals))
        ELSE IF subtract THEN DtSubTd(value, timedelta(intervals))
        ELSE value

\* _time_value adding the intervals in the subtract branch too
_time_value_subtract_adds(naive0, utc0, add, subtract, intervals) ==
    LET naive == IF naive0 = DEFAULT THEN Config.naive ELSE naive0[1]
        utc   == IF utc0 = DEFAULT THEN Config.utc ELSE utc0[1]
        value == IF utc
                 THEN (IF naive THEN StripTz(NowUtc) ELSE NowUtc)
                 ELSE (IF ~naive THEN AsTimezone(NowLocal) ELSE NowLocal)
    IN  IF add THEN DtAdd(value, timedelta(intervals))
        ELSE IF subtract THEN DtAdd(value, timedelta(intervals))
        ELSE value

_time_value(naive0, utc0, add, subtract, intervals) ==
    LET naive == IF naive0 = DEFAULT THEN Config.naive ELSE naive0[1]
        utc   == IF utc0 = DEFAULT THEN Config.utc ELSE utc0[1]
        value == IF utc
                 THEN (IF naive THEN StripTz(NowUtc) ELSE NowUtc)
                 ELSE (IF ~naive THEN AsTimezone(NowLocal) ELSE NowLocal)
    IN  IF add THEN DtAdd(value, timedelta(intervals))
        ELSE IF subtract THEN DtSubTd(value, timedelta(intervals))
        ELSE value

NoIntervals ==
    [seconds |-> 0, minutes |-> 0, hours |-> 0, days |-> 0, weeks |-> 0,
     microseconds |-> 0, milliseconds |-> 0]

time_now(naive, utc) == _time_value(naive, utc, FALSE, FALSE, NoIntervals)

time_in(intervals, naive, utc) == _time_value(naive, utc, TRUE, FALSE, intervals)

time_ago(intervals, naive, utc) == _time_value(naive, utc, FALSE, TRUE, intervals)

(***************************************************************************)
(* Format patterns are sequences of tokens; strftime renders each token to *)
(* a piece of the output.  %z of a naive value renders to nothing.         *)
(***************************************************************************)
NaivePattern == <<"%Y-%m-%dT%H:%M:%S", ".", "%f">>

AwarePattern == <<"%Y-%m-%dT%H:%M:%S", ".", "%f", "%z">>

RenderToken(v, tok) ==
    CASE tok = "%Y-%m-%dT%H:%M:%S" -> <<[date_time |-> v.wall.s]>>
      [] tok = "%f" -> <<[micro |-> v.wall.us]>>
      [] tok = "%z" -> IF v.aware THEN <<[offset |-> v.off]>> ELSE <<>>
      [] OTHER -> <<[literal |-> tok]>>

RECURSIVE strftime(_, _)
strftime(v, pattern) ==
    IF pattern = <<>> THEN <<>>
    ELSE RenderToken(v, Head(pattern)) \o strftime(v, Tail(pattern))

\* the truth value of an optional pattern: None and '' are false
Truthy(f) == f # None /\ f[1] # <<>>

\* timestamp resolving its value with the naive default of Config
timestamp_default_naive(format, utc) ==
    LET now == _time_value(DEFAULT, utc, FALSE, FALSE, NoIntervals)
        fmt == IF Truthy(format) THEN format[1]
               ELSE IF Truthy(Config.format) THEN Config.format[1]
               ELSE IF Config.naive THEN NaivePattern
               ELSE AwarePattern
    IN  [now |-> now, format |-> fmt, text |-> strftime(now, fmt)]

\* timestamp(format, utc): the value it resolves, the pattern it chooses and
\* the string it returns
timestamp(format, utc) ==
    LET now == _time_value(Some(FALSE), utc, FALSE, FALSE, NoIntervals)
        fmt == IF Truthy(format) THEN format[1]
               ELSE IF Truthy(Config.format) THEN Config.format[1]
               ELSE IF Config.naive THEN NaivePattern
               ELSE AwarePattern
    IN  [now |-> now, format |-> fmt, text |-> strftime(now, fmt)]

(***************************************************************************)
(* class Duration                                                          *)
(***************************************************************************)
\* class _convert
minutes_per == 60
hours_per == 3600
days_per == 86400
weeks_per == 604800
microseconds_per == 1000000
milliseconds_per == 1000

Units ==
    {"seconds", "minutes", "hours", "days", "weeks", "microseconds",
     "milliseconds"}

\* Duration.__init__
Duration(interval) ==
    [interval |-> interval, total_seconds |-> total_seconds(interval),
     cache |-> <<>>]

\* _compute caching every value under the key of the seconds
_compute_one_key(self, unit, divide, multiply) ==
    IF unit \in DOMAIN self.cache
    THEN [value |-> self.cache[unit], self |-> self]
    ELSE LET v0    == self.total_seconds
             v1    == IF divide # 0 THEN FloatDiv(v0, divide)
                      ELSE IF multiply # 0 THEN FloatMul(v0, multiply)
                      ELSE v0
             value == FloatToInt(v1)
         IN  [value |-> value,
              self  |-> [self EXCEPT !.cache = [u \in {"seconds"} |-> value]]]

\* Duration._compute(unit, divide, multiply), where 0 stands for an argument
\* left at None (both are false as a condition): the value returned and the
\* instance afterwards
_compute(self, unit, divide, multiply) ==
    IF unit \in DOMAIN self.cache
    THEN [value |-> self.cache[unit], self |-> self]
    ELSE LET v0    == self.total_seconds
             v1    == IF divide # 0 THEN FloatDiv(v0, divide)
                      ELSE IF multiply # 0 THEN FloatMul(v0, multiply)
                      ELSE v0
             value == FloatToInt(v1)
         IN  [value |-> value,
              self  |-> [self EXCEPT !.cache = (unit :> value) @@ self.cache]]

\* the unit properties of Duration
Property(self, unit) ==
    CASE unit = "seconds"      -> _compute(self, unit, 0, 0)
      [] unit = "minutes"      -> _compute(self, unit, minutes_per, 0)
      [] unit = "hours"        -> _compute(self, unit, hours_per, 0)
      [] unit = "days"         -> _compute(self, unit, days_per, 0)
      [] unit = "weeks"        -> _compute(self, unit, weeks_per, 0)
      [] unit = "microseconds" -> _compute(self, unit, 0, microseconds_per)
      [] unit = "milliseconds" -> _compute(self, unit, 0, milliseconds_per)

\* difference without abs()
difference_signed(value1, value2) ==
    LET interval == DtSub(value1, value2)
    IN  Duration(interval)

\* difference(value1, value2)
difference(value1, value2) ==
    LET interval == TdAbs(DtSub(value1, value2))
    IN  Duration(interval)

(***************************************************************************)
(* The state machine.  Every step records itself in last.                  *)
(***************************************************************************)
NotAssigned == <<>>

MaxClock == 1

\* the environments in which each of the two variables is unset or has a
\* value of the given set
Environments(values) ==
    UNION {[names -> values] :
              names \in SUBSET {"SHORTCUTS_DATE_NAIVE", "SHORTCUTS_DATE_UTC"}}

InitWith(environments, offsets) ==
    /\ environ \in environments
    /\ Config = ConfigClass
    /\ assigned = [naive |-> NotAssigned, utc |-> NotAssigned, format |-> NotAssigned]
    /\ clock = 0
    /\ tzoffset \in offsets
    /\ last = [op |-> "import"]
    /\ dur = None
    /\ firstRead = [made |-> "none", negative |-> FALSE, first |-> <<>>]

\* the caller assigns Config.naive = b
SetNaive(b) ==
    /\ Config' = [Config EXCEPT !.naive = b]
    /\ assigned' = [assigned EXCEPT !.naive = Some(b)]
    /\ last' = [op |-> "set_naive"]
    /\ UNCHANGED <<environ, clock, tzoffset, dur, firstRead>>

\* the caller assigns Config.utc = b
SetUtc(b) ==
    /\ Config' = [Config EXCEPT !.utc = b]
    /\ assigned' = [assigned EXCEPT !.utc = Some(b)]
    /\ last' = [op |-> "set_utc"]
    /\ UNCHANGED <<environ, clock, tzoffset, dur, firstRead>>

\* the caller assigns Config.format = f (None or Some(pattern))
SetFormat(f) ==
    /\ Config' = [Config EXCEPT !.format = f]
    /\ assigned' = [assigned EXCEPT !.format = Some(f)]
    /\ last' = [op |-> "set_format"]
    /\ UNCHANGED <<environ, clock, tzoffset, dur, firstRead>>

\* time passes
Tick ==
    /\ clock < MaxClock
    /\ clock' = clock + 1
    /\ last' = [op |-> "tick"]
    /\ UNCHANGED <<environ, Config, assigned, tzoffset, dur, firstRead>>

\* time_now keeping a given naive argument as the new Config.naive
TimeNow_keeps_argument(naive, utc) ==
    /\ last' = [op |-> "time_now", naive |-> naive, utc |-> utc,
                value |-> time_now(naive, utc)]
    /\ Config' = [Config EXCEPT !.naive = Effective(naive, Config.naive)]
    /\ UNCHANGED <<environ, assigned, clock, tzoffset, dur, firstRead>>

TimeNow(naive, utc) ==
    /\ last' = [op |-> "time_now", naive |-> naive, utc |-> utc,
                value |-> time_now(naive, utc)]
    /\ UNCHANGED <<environ, Config, assigned, clock, tzoffset, dur, firstRead>>

TimeIn(intervals, naive, utc) ==
    /\ last' = [op |-> "time_in", intervals |-> intervals, naive |-> naive,
                utc |-> utc, value |-> time_in(intervals, naive, utc)]
    /\ UNCHANGED <<environ, Config, assigned, clock, tzoffset, dur, firstRead>>

TimeAgo(intervals, naive, utc) ==
    /\ last' = [op |-> "time_ago", intervals |-> intervals, naive |-> naive,
                utc |-> utc, value |-> time_ago(intervals, naive, utc)]
    /\ UNCHANGED <<environ, Config, assigned, clock, tzoffset, dur, firstRead>>

Timestamp(format, utc) ==
    /\ last' = [op |-> "timestamp", format |-> format, utc |-> utc,
                value |-> timestamp(format, utc)]
    /\ UNCHANGED <<environ, Config, assigned, clock, tzoffset, dur, firstRead>>

\* the caller constructs Duration(interval) directly
NewDuration(interval) ==
    /\ dur' = Some(Duration(interval))
    /\ firstRead' = [made |-> "Duration", negative |-> interval.s < 0,
                      first |-> <<>>]
    /\ last' = [op |-> "Duration", interval |-> interval]
    /\ UNCHANGED <<environ, Config, assigned, clock, tzoffset>>

\* the caller calls difference(a, b); values of different kinds raise
\* TypeError in the subtraction and nothing is constructed.  The history
\* keeps whether a - b was negative.
Difference(a, b) ==
    /\ IF DtSub(a, b) = TypeError
       THEN /\ last' = [op |-> "difference", raised |-> TRUE]
            /\ UNCHANGED <<dur, firstRead>>
       ELSE /\ dur' = Some(difference(a, b))
            /\ firstRead' = [made |-> "difference", negative |-> DtSub(a, b).s < 0,
                             first |-> <<>>]
            /\ last' = [op |-> "difference", a |-> a, b |-> b, raised |-> FALSE]
    /\ UNCHANGED <<environ, Config, assigned, clock, tzoffset>>

\* the caller reads a unit property of the Duration it holds
Read(unit) ==
    /\ dur # None
    /\ LET r == Property(dur[1], unit)
       IN  /\ dur' = Some(r.self)
           /\ last' = [op |-> "read", unit |-> unit, value |-> r.value,
                       cached |-> unit \in DOMAIN dur[1].cache]
           /\ firstRead' =
                  IF unit \in DOMAIN firstRead.first THEN firstRead
                  ELSE [firstRead EXCEPT !.first = (unit :> r.value) @@ @]
    /\ UNCHANGED <<environ, Config, assigned, clock, tzoffset>>

(***************************************************************************)
(* The inputs of the calls                                                 *)
(***************************************************************************)
OptBool == {DEFAULT, Some(TRUE), Some(FALSE)}

\* format arguments: None, the empty string, a pattern with an offset token
Formats == {None, Some(<<>>), Some(<<"%f", "%z">>)}

ConfigFormats == {None, Some(<<>>), Some(<<"%Y-%m-%dT%H:%M:%S", "%z", "Z">>)}

Fields(s, mi, h, d, w, us, ms) ==
    [seconds |-> s, minutes |-> mi, hours |-> h, days |-> d, weeks |-> w,
     microseconds |-> us, milliseconds |-> ms]

IntervalChoices ==
    {NoIntervals,
     Fields(-5, 0, 0, 0, 0, 600, 0),
     Fields(5, 0, 0, 0, 0, 0, 0),
     Fields(0, 3, 0, 0, 0, 0, -1),
     Fields(0, 0, 1, -1, 0, 250, 0),
     Fields(1, 2, 3, 4, 5, 6, 7),
     Fields(0, 0, 0, 0, -1, 0, 1500)}

LocalOffsets == {-18000, 19800}

\* nothing set, and both variables set against their defaults
EnvFew ==
    {<<>>,
     [SHORTCUTS_DATE_NAIVE |-> <<"F", "a", "l", "s", "e">>,
      SHORTCUTS_DATE_UTC |-> <<"T", "R", "U", "E">>]}

EnvValues ==
    {<<"t", "r", "u", "e">>, <<"T", "R", "U", "E">>, <<"T", "r", "u", "e">>,
     <<"f", "a", "l", "s", "e">>, <<"F", "A", "L", "S", "E">>,
     <<"f", "A", "l", "S", "e">>, <<"y", "e", "s">>, <<"1">>, <<>>,
     <<"t", "r", "u", "e", " ">>}

\* time values handed to difference(): wall readings, naive or aware
Samples(walls, offsets) ==
    {[wall |-> w, aware |-> FALSE, off |-> 0] : w \in walls}
    \cup {[wall |-> w, aware |-> TRUE, off |-> o] : w \in walls, o \in offsets}

Later == TdAdd(Instant(0), timedelta(Fields(1, 1, 1, 1, 1, 1, 1)))

DiffSamples ==
    Samples({Instant(0), Later}, {})
    \cup Samples({Instant(0)}, {0, tzoffset})
    \cup Samples({Later}, {tzoffset})

\* intervals handed to Duration() directly: 3661.5 s, 249 us, 1.001 s,
\* -3661.5 s, -0.5 s and 8 days 1 hour 1 minute 1.001001 s
DirectIntervals ==
    {TdNorm(3661, 500000), TdNorm(0, 249), TdNorm(1, 1000),
     TdNorm(-3661, -500000), TdNorm(0, -500000), TdNorm(694861, 1001)}

(***************************************************************************)
(* The whole library with a caller that assigns Config at any time.        *)
(***************************************************************************)
Init == InitWith(EnvFew, {-18000})

Next ==
    \/ \E b \in BOOLEAN : SetNaive(b)
    \/ \E b \in BOOLEAN : SetUtc(b)
    \/ \E f \in {None, Some(<<"%f", "%z">>)} : SetFormat(f)
    \/ Tick
    \/ \E n \in {DEFAULT, Some(FALSE)}, u \in {DEFAULT, Some(TRUE)} : TimeNow(n, u)
    \/ \E n \in {DEFAULT, Some(FALSE)}, u \in {DEFAULT, Some(TRUE)} :
           TimeIn(Fields(-5, 0, 0, 0, 0, 600, 0), n, u)
    \/ \E n \in {DEFAULT, Some(FALSE)}, u \in {DEFAULT, Some(TRUE)} :
           TimeAgo(Fields(-5, 0, 0, 0, 0, 600, 0), n, u)
    \/ \E f \in {None, Some(<<"%f">>)}, u \in {DEFAULT, Some(TRUE)} : Timestamp(f, u)
    \/ NewDuration(TdNorm(-61, 249))
    \/ \E a, b \in Samples({Instant(0), Instant(1)}, {}) : Difference(a, b)
    \/ \E unit \in {"minutes", "microseconds"} : Read(unit)

Spec == Init /\ [][Next]_vars

(***************************************************************************)
(* The time resolver alone, over all its arguments.                        *)
(***************************************************************************)
InitTime == InitWith({<<>>}, LocalOffsets)

NextTime ==
    \/ \E b \in BOOLEAN : SetNaive(b)
    \/ \E b \in BOOLEAN : SetUtc(b)
    \/ \E f \in ConfigFormats : SetFormat(f)
    \/ Tick
    \/ \E n \in OptBool, u \in OptBool : TimeNow(n, u)
    \/ \E i \in IntervalChoices, n \in OptBool, u \in OptBool : TimeIn(i, n, u)
    \/ \E i \in IntervalChoices, n \in OptBool, u \in OptBool : TimeAgo(i, n, u)
    \/ \E f \in Formats, u \in OptBool : Timestamp(f, u)

SpecTime == InitTime /\ [][NextTime]_vars

(***************************************************************************)
(* Duration and difference() alone.                                        *)
(***************************************************************************)
InitDur == InitWith({<<>>}, {19800})

NextDur ==
    \/ \E i \in DirectIntervals : NewDuration(i)
    \/ \E a, b \in DiffSamples : Difference(a, b)
    \/ \E unit \in Units : Read(unit)

SpecDur == InitDur /\ [][NextDur]_vars

(***************************************************************************)
(* The import of the module under every environment.                       *)
(***************************************************************************)
InitEnv == InitWith(Environments(EnvValues), {0})

NextEnv ==
    \/ \E b \in BOOLEAN : SetNaive(b)
    \/ \E b \in BOOLEAN : SetUtc(b)
    \/ \E n \in OptBool, u \in OptBool : TimeNow(n, u)

SpecEnv == InitEnv /\ [][NextEnv]_vars

(***************************************************************************)
(* Properties                                                              *)
(***************************************************************************)
\* C1: time_now returns a naive value exactly when the naive argument, or
\* Config.naive if it is omitted, is true; an aware value carries the zero
\* offset when the utc argument, or Config.utc if omitted, is true and the
\* local offset otherwise.
C1_TimeNowKind ==
    last.op = "time_now" =>
        LET naive == Effective(last.naive, Config.naive)
            utc   == Effective(last.utc, Config.utc)
        IN  /\ last.value.aware = ~naive
            /\ (~naive /\ utc) => last.value.off = 0
            /\ (~naive /\ ~utc) => last.value.off = tzoffset

C1_Witness ==
    /\ last.op = "time_now"
    /\ last.naive = DEFAULT /\ ~Config.naive
    /\ last.utc = Some(FALSE) /\ Config.utc
    /\ last.value.aware /\ last.value.off = tzoffset /\ tzoffset # 0

\* C2: timestamp formats with its format argument whenever one is given,
\* else with Config.format if that is set, else with the naive or the aware
\* default pattern according to Config.naive.
C2_FormatPrecedence ==
    last.op = "timestamp" =>
        last.value.format =
            IF last.format # None THEN last.format[1]
            ELSE IF Config.format # None THEN Config.format[1]
            ELSE IF Config.naive THEN NaivePattern
            ELSE AwarePattern

\* C10: the value timestamp formats is aware whatever Config.naive is, with
\* the zero offset for utc and the local offset otherwise, so that every %z
\* of the pattern renders an offset.
C10_TimestampAware ==
    last.op = "timestamp" =>
        LET utc == Effective(last.utc, Config.utc)
            v   == last.value
        IN  /\ v.now.aware
            /\ v.now.off = IF utc THEN 0 ELSE tzoffset
            /\ \A i \in 1..Len(v.format) :
                   v.format[i] = "%z" =>
                       \E j \in 1..Len(v.text) : v.text[j] = [offset |-> v.now.off]

C10_Witness ==
    /\ last.op = "timestamp"
    /\ Config.naive /\ Config.format = None
    /\ last.format = Some(<<"%f", "%z">>) /\ last.utc = DEFAULT /\ ~Config.utc
    /\ last.value.now.aware /\ last.value.now.off = tzoffset
    /\ last.value.text[2] = [offset |-> tzoffset]

\* the fields of an interval, each taken as a span of its own and added up
SpanOf(f) ==
    TdAdd(TdNorm(f.seconds, 0),
    TdAdd(TdNorm(60 * f.minutes, 0),
    TdAdd(TdNorm(3600 * f.hours, 0),
    TdAdd(TdNorm(86400 * f.days, 0),
    TdAdd(TdNorm(604800 * f.weeks, 0),
    TdAdd(TdNorm(0, f.microseconds), TdNorm(0, 1000 * f.milliseconds)))))))

\* C9: at one clock reading and for one naive/utc choice, time_in is the
\* resolved current value plus the sum of all interval fields and time_ago is
\* that value minus the same sum; with all fields zero both are that value.
C9_ShiftMirror ==
    LET now == time_now(last.naive, last.utc)
    IN  /\ last.op = "time_in" =>
            /\ DtSub(last.value, now) = SpanOf(last.intervals)
            /\ last.value.aware = now.aware /\ last.value.off = now.off
            /\ last.intervals = NoIntervals => last.value = now
        /\ last.op = "time_ago" =>
            /\ DtSub(now, last.value) = SpanOf(last.intervals)
            /\ last.value.aware = now.aware /\ last.value.off = now.off
            /\ last.intervals = NoIntervals => last.value = now

C9_Witness ==
    /\ last.op = "time_ago"
    /\ last.intervals = Fields(0, 0, 0, 0, -1, 0, 1500)
    /\ last.value.aware
    /\ DtSub(last.value, time_now(last.naive, last.utc)) = TdNorm(604798, 500000)

\* C8: every Config attribute holds the value the caller assigned last, or
\* the value the import gave it if the caller never assigned it, whatever
\* library calls were made in between.
C8_ConfigFrame ==
    /\ Config.naive =
           IF assigned.naive = NotAssigned THEN ConfigClass.naive ELSE assigned.naive[1]
    /\ Config.utc =
           IF assigned.utc = NotAssigned THEN ConfigClass.utc ELSE assigned.utc[1]
    /\ Config.format =
           IF assigned.format = NotAssigned THEN None ELSE assigned.format[1]

C8_Witness ==
    /\ assigned.naive = Some(TRUE) /\ assigned.utc = NotAssigned
    /\ assigned.format = Some(Some(<<"%f", "%z">>))
    /\ ~ConfigClass.naive /\ Config.utc
    /\ last.op = "time_now" /\ last.naive = Some(FALSE) /\ last.utc = DEFAULT
    /\ dur # None /\ DOMAIN dur[1].cache = {"minutes", "microseconds"}

\* v is "true" in some letter case
IsTrueAnyCase(v) ==
    /\ Len(v) = 4
    /\ v[1] \in {"t", "T"} /\ v[2] \in {"r", "R"}
    /\ v[3] \in {"u", "U"} /\ v[4] \in {"e", "E"}

IsFalseAnyCase(v) ==
    /\ Len(v) = 5
    /\ v[1] \in {"f", "F"} /\ v[2] \in {"a", "A"} /\ v[3] \in {"l", "L"}
    /\ v[4] \in {"s", "S"} /\ v[5] \in {"e", "E"}

IsSet(name) == name \in DOMAIN environ

\* C7 as stated: naive and utc are read from the environment as "true" or
\* "false" in any letter case, and are naive = true, utc = false when the
\* variable is unset or holds anything else.
C7_DefaultWhenUnparseable ==
    /\ assigned.naive = NotAssigned =>
           Config.naive =
               IF IsSet("SHORTCUTS_DATE_NAIVE")
                  /\ IsFalseAnyCase(environ["SHORTCUTS_DATE_NAIVE"])
               THEN FALSE ELSE TRUE
    /\ assigned.utc = NotAssigned =>
           Config.utc =
               IF IsSet("SHORTCUTS_DATE_UTC")
                  /\ IsTrueAnyCase(environ["SHORTCUTS_DATE_UTC"])
               THEN TRUE ELSE FALSE

\* C7 as amended: naive is true when its variable is unset, utc is false when
\* its variable is unset, and a variable that is set gives true exactly when
\* its value is "true" in some letter case, false for every other value.
C7_EnvSeed ==
    /\ assigned.naive = NotAssigned =>
           Config.naive =
               IF IsSet("SHORTCUTS_DATE_NAIVE")
               THEN IsTrueAnyCase(environ["SHORTCUTS_DATE_NAIVE"]) ELSE TRUE
    /\ assigned.utc = NotAssigned =>
           Config.utc =
               IF IsSet("SHORTCUTS_DATE_UTC")
               THEN IsTrueAnyCase(environ["SHORTCUTS_DATE_UTC"]) ELSE FALSE

C7_Witness ==
    /\ assigned.naive = NotAssigned /\ assigned.utc = NotAssigned
    /\ IsSet("SHORTCUTS_DATE_NAIVE") /\ IsSet("SHORTCUTS_DATE_UTC")
    /\ environ["SHORTCUTS_DATE_NAIVE"] = <<"y", "e", "s">>
    /\ environ["SHORTCUTS_DATE_UTC"] = <<"T", "r", "u", "e">>
    /\ ~Config.naive /\ Config.utc
    /\ last.op = "time_now"

\* C3: a Duration made by difference() wraps an interval that is not
\* negative, and none of its unit properties returns a negative value.
C3_NonNegative ==
    firstRead.made = "difference" =>
        /\ dur[1].interval.s >= 0
        /\ \A u \in DOMAIN dur[1].cache : ~dur[1].cache[u].neg
        /\ last.op = "read" => ~last.value.neg

C3_Witness ==
    /\ firstRead.made = "difference" /\ firstRead.negative
    /\ DOMAIN dur[1].cache = Units
    /\ dur[1].cache["weeks"] = [neg |-> FALSE, bits |-> <<1>>]
    /\ last.op = "read" /\ last.unit = "microseconds"

\* C4: difference(a, b) and difference(b, a) wrap the same interval and all
\* their unit properties return the same values.
C4_Commutative ==
    (last.op = "difference" /\ ~last.raised) =>
        LET other == difference(last.b, last.a)
        IN  /\ dur[1].interval = other.interval
            /\ \A u \in Units :
                   Property(dur[1], u).value = Property(other, u).value

C4_Witness ==
    /\ last.op = "difference" /\ ~last.raised
    /\ last.a.aware /\ last.a.off # last.b.off
    /\ firstRead.negative
    /\ dur[1].interval = TdNorm(675061, 1001)

\* the exact value of a unit: the microseconds of the interval times the
\* unit's factor over 10^6, or over 10^6 and then over the unit's divisor,
\* truncated toward zero
ExactUnit(interval, unit) ==
    LET t    == TotalMicro(interval)
        secs == DivFloor(t.bits, 1000000)
    IN  CASE unit = "seconds"      -> MkBig(t.neg, secs)
          [] unit = "minutes"      -> MkBig(t.neg, DivFloor(secs, 60))
          [] unit = "hours"        -> MkBig(t.neg, DivFloor(secs, 3600))
          [] unit = "days"         -> MkBig(t.neg, DivFloor(secs, 86400))
          [] unit = "weeks"        -> MkBig(t.neg, DivFloor(secs, 604800))
          [] unit = "microseconds" -> MkBig(t.neg, t.bits)
          [] unit = "milliseconds" -> MkBig(t.neg, DivFloor(t.bits, 1000))

\* C5: every unit property returns the exact value of its unit for the
\* interval, truncated toward zero.
C5_ExactTruncation ==
    last.op = "read" => last.value = ExactUnit(dur[1].interval, last.unit)

\* C6: a unit read again returns what its first read returned: a value in
\* the cache is the value of the unit's first read and stays there whatever
\* other units are read.
C6_CacheStable ==
    dur # None =>
        /\ DOMAIN dur[1].cache = DOMAIN firstRead.first
        /\ \A u \in DOMAIN firstRead.first : dur[1].cache[u] = firstRead.first[u]
        /\ last.op = "read" => last.value = firstRead.first[last.unit]

C6_Witness ==
    /\ last.op = "read" /\ last.cached /\ last.unit = "seconds"
    /\ DOMAIN dur[1].cache = Units
    /\ dur[1].interval = TdNorm(-3661, -500000)
    /\ last.value = [neg |-> TRUE, bits |-> NatBits(3661)]

====
